---- MODULE Spec2Model ----
(***************************************************************************)
(* Model of the prompt-refinement page: the dynamic-filter synthesizer     *)
(* (generate_dynamic_filters) and the filter renderer                      *)
(* (display_custom_filters), in the two revisions the repository holds:    *)
(* filters.py (used by main.py) and the single-file page app.py.           *)
(*                                                                         *)
(* Text is a sequence of tokens, a token a pair <<kind, atoms>>; a string  *)
(* is a sequence of atoms (indivisible runs of characters), so that        *)
(* Python's substring test on strings is containment of an atom.           *)
(* A JSON value is a record [t, s, e]: tag, string content, children.      *)
(***************************************************************************)
EXTENDS Integers, Sequences, FiniteSets, TLC

\* ------------------------------------------------------------------ bounds

\* Longest list of filter definitions the model's answer carries.
MaxFilters == 2
\* Longest run of commentary tokens before and after an embedded payload.
MaxCommentary == 1

\* ------------------------------------------------------------- JSON values

Str(a) == [t |-> "str", s |-> a, e |-> <<>>]
Lit(x) == [t |-> "lit", s |-> <<x>>, e |-> <<>>]
Arr(es) == [t |-> "arr", s |-> <<>>, e |-> es]
Mem(k, v) == [t |-> "mem", s |-> k, e |-> <<v>>]
Obj(ms) == [t |-> "obj", s |-> <<>>, e |-> ms]

\* Python's None / JSON null.
None == Lit("null")

Range(f) == {f[i] : i \in DOMAIN f}

\* dict: d[k] = v keeps the position of an existing key and replaces its value.
DictSet(ms, k, v) ==
    IF \E i \in DOMAIN ms : ms[i].s = k
    THEN [i \in DOMAIN ms |-> IF ms[i].s = k THEN Mem(k, v) ELSE ms[i]]
    ELSE Append(ms, Mem(k, v))

\* dict: k in d
HasKey(d, k) == \E i \in DOMAIN d.e : d.e[i].s = k

\* dict: d.get(k, dflt)
DictGet(d, k, dflt) ==
    IF HasKey(d, k)
    THEN (CHOOSE m \in Range(d.e) : m.s = k).e[1]
    ELSE dflt

\* ------------------------------------------------------------------ tokens

Tok(kind, a) == <<kind, a>>
LBRACE == Tok("p", <<"{">>)
RBRACE == Tok("p", <<"}">>)
LBRACK == Tok("p", <<"[">>)
RBRACK == Tok("p", <<"]">>)
COLON == Tok("p", <<":">>)
COMMA == Tok("p", <<",">>)
WS == Tok("ws", <<" ">>)
WORD == Tok("w", <<"Sure">>)
FENCE == Tok("w", <<"fence">>)

RECURSIVE Serialize(_), SerializeItems(_, _)
\* The text of a JSON value, as the generation model would write it.
Serialize(v) ==
    CASE v.t = "str" -> <<Tok("s", v.s)>>
      [] v.t = "lit" -> <<Tok("l", v.s)>>
      [] v.t = "arr" -> <<LBRACK>> \o SerializeItems(v.e, 1) \o <<RBRACK>>
      [] v.t = "obj" -> <<LBRACE>> \o SerializeItems(v.e, 1) \o <<RBRACE>>
      [] v.t = "mem" -> <<Tok("s", v.s), COLON>> \o Serialize(v.e[1])

SerializeItems(es, i) ==
    IF i > Len(es) THEN <<>>
    ELSE Serialize(es[i])
         \o (IF i < Len(es) THEN <<COMMA>> ELSE <<>>)
         \o SerializeItems(es, i + 1)

\* ------------------------------------------------------------- json.loads

ParseFail == [ok |-> FALSE, v |-> None, rest |-> <<>>]
ParseOk(v, rest) == [ok |-> TRUE, v |-> v, rest |-> rest]

RECURSIVE ParseValue(_), ParseMembers(_, _), ParseElements(_, _)
ParseValue(ts) ==
    IF ts = <<>> THEN ParseFail
    ELSE LET h == Head(ts) IN
         CASE h[1] = "s" -> ParseOk(Str(h[2]), Tail(ts))
           [] h[1] = "l" -> ParseOk([t |-> "lit", s |-> h[2], e |-> <<>>], Tail(ts))
           [] h = LBRACE ->
                IF Len(ts) >= 2 /\ ts[2] = RBRACE
                THEN ParseOk(Obj(<<>>), Tail(Tail(ts)))
                ELSE ParseMembers(Tail(ts), <<>>)
           [] h = LBRACK ->
                IF Len(ts) >= 2 /\ ts[2] = RBRACK
                THEN ParseOk(Arr(<<>>), Tail(Tail(ts)))
                ELSE ParseElements(Tail(ts), <<>>)
           [] OTHER -> ParseFail

\* "key" : value, then "," and more members, or "}".
ParseMembers(ts, acc) ==
    IF Len(ts) < 3 \/ ts[1][1] # "s" \/ ts[2] # COLON THEN ParseFail
    ELSE LET r == ParseValue(SubSeq(ts, 3, Len(ts))) IN
         IF ~r.ok \/ r.rest = <<>> THEN ParseFail
         ELSE LET acc2 == DictSet(acc, ts[1][2], r.v) IN
              CASE Head(r.rest) = COMMA -> ParseMembers(Tail(r.rest), acc2)
                [] Head(r.rest) = RBRACE -> ParseOk(Obj(acc2), Tail(r.rest))
                [] OTHER -> ParseFail

\* value, then "," and more values, or "]".
ParseElements(ts, acc) ==
    LET r == ParseValue(ts) IN
    IF ~r.ok \/ r.rest = <<>> THEN ParseFail
    ELSE LET acc2 == Append(acc, r.v) IN
         CASE Head(r.rest) = COMMA -> ParseElements(Tail(r.rest), acc2)
           [] Head(r.rest) = RBRACK -> ParseOk(Arr(acc2), Tail(r.rest))
           [] OTHER -> ParseFail

IsWs(tok) == tok[1] = "ws"

\* json.loads(text): whitespace between tokens is insignificant; the whole text
\* must be one value.
json_loads(ts) ==
    LET r == ParseValue(SelectSeq(ts, LAMBDA tok : ~IsWs(tok))) IN
    IF r.ok /\ r.rest = <<>> THEN [ok |-> TRUE, v |-> r.v]
    ELSE [ok |-> FALSE, v |-> None]

\* str.strip(): leading and trailing whitespace removed.
RECURSIVE lstrip(_), rstrip(_)
lstrip(ts) == IF ts # <<>> /\ IsWs(Head(ts)) THEN lstrip(Tail(ts)) ELSE ts
rstrip(ts) ==
    IF ts # <<>> /\ IsWs(ts[Len(ts)]) THEN rstrip(SubSeq(ts, 1, Len(ts) - 1)) ELSE ts
strip(ts) == rstrip(lstrip(ts))

\* re.search of the pattern "open brace, anything, close brace" with DOTALL:
\* the quantifier is greedy, so the match runs from the
\* first "{" of the text to its last "}"; no match when no "}" follows a "{".
re_search(ts) ==
    LET opens == {i \in DOMAIN ts : ts[i] = LBRACE}
        closes == {i \in DOMAIN ts : ts[i] = RBRACE}
    IN  IF opens = {} \/ closes = {} THEN [found |-> FALSE, group |-> <<>>]
        ELSE LET i == CHOOSE x \in opens : \A y \in opens : x <= y
                 j == CHOOSE x \in closes : \A y \in closes : x >= y
             IN  IF i < j THEN [found |-> TRUE, group |-> SubSeq(ts, i, j)]
                 ELSE [found |-> FALSE, group |-> <<>>]

\* Mutant: the extraction step left out, the text parsed as it came.
ExtractJson_Skipped(ts) == ts

\* text_output after lines 120-122: the match if there is one, else unchanged.
ExtractJson(ts) ==
    LET m == re_search(ts) IN IF m.found THEN m.group ELSE ts

\* ------------------------------------------------ Python operators on values

\* needle in v: key of a dict, substring of a str, element of a list;
\* TypeError ("err") for None, numbers and booleans.
Contains(needle, v) ==
    CASE v.t = "obj" -> IF HasKey(v, <<needle>>) THEN "yes" ELSE "no"
      [] v.t = "str" -> IF needle \in Range(v.s) THEN "yes" ELSE "no"
      [] v.t = "arr" -> IF Str(<<needle>>) \in Range(v.e) THEN "yes" ELSE "no"
      [] OTHER -> "err"

\* One character of a string: it holds none of the (longer) field names.
OneChar == Str(<<"c">>)

Iterable(v) == v.t \in {"arr", "obj", "str"}

\* for x in v: the elements of a list, the keys of a dict, the characters of a str.
Items(v) ==
    CASE v.t = "arr" -> v.e
      [] v.t = "obj" -> [i \in DOMAIN v.e |-> Str(v.e[i].s)]
      [] v.t = "str" -> [i \in DOMAIN v.s |-> OneChar]
      [] OTHER -> <<>>

\* v[k] for a str key k: only a dict that holds k does not raise.
Subscriptable(v, k) == v.t = "obj" /\ HasKey(v, <<k>>)

\* --------------------------------------------------- filters.py validation

\* Lines 130-131: the ValueError for a filter missing a required key is not raised.
FilterHasKeys(filt) ==
    /\ Contains("type", filt) = "yes"
    /\ Contains("label", filt) = "yes"
    /\ Contains("key", filt) = "yes"

\* Lines 125-131 run to "return parsed_output" without an exception.
Validates(parsed) ==
    /\ Contains("custom_filters", parsed) = "yes"
    /\ Subscriptable(parsed, "custom_filters")
    /\ LET cf == DictGet(parsed, <<"custom_filters">>, None) IN
       /\ Iterable(cf)
       /\ \A i \in DOMAIN Items(cf) : FilterHasKeys(Items(cf)[i])

\* ------------------------------------------------------------ fixed values

NoValue == [t |-> "none", s |-> <<>>, e |-> <<>>]
Absent == [t |-> "absent", s |-> <<>>, e |-> <<>>]

\* isinstance(v, dict)
IsObject(v) == v.t = "obj"
NonEmptyStr(v) == v.t = "str" /\ v.s # <<>>
\* The value of field k of a dict, Absent when it has none.
Field(d, k) == DictGet(d, <<k>>, Absent)

RECURSIVE Members(_)
\* The members of a dict literal, fields marked Absent left out.
Members(pairs) ==
    IF pairs = <<>> THEN <<>>
    ELSE LET rest == Members(Tail(pairs)) IN
         IF Head(pairs)[2] = Absent THEN rest
         ELSE <<Mem(<<Head(pairs)[1]>>, Head(pairs)[2])>> \o rest

\* A filter definition with the given type, label, key and options.
Filter(ty, la, ke, opts) ==
    Obj(Members(<<<<"type", ty>>, <<"label", la>>, <<"key", ke>>, <<"options", opts>>>>))

FilterSet(defs) == Obj(<<Mem(<<"custom_filters">>, Arr(defs))>>)

S(x) == Str(<<x>>)

\* filters.py line 110: what is returned when the model object is None.
EmptyFilters == FilterSet(<<>>)

\* filters.py lines 139-159.
FiltersFallback ==
    FilterSet(<<
        Filter(S("radio"), S("What level of detail do you require?"),
               S("fallback_detail_level"),
               Arr(<<S("Basic"), S("Intermediate"), S("Advanced")>>)),
        Filter(S("checkbox"), S("Which areas are you most interested in?"),
               S("fallback_interest_areas"),
               Arr(<<S("Design"), S("Functionality"), S("Performance"), S("Usability")>>)),
        Filter(S("text_input"), S("Describe your requirements:"),
               S("fallback_free_text"), Absent)>>)

\* app.py lines 171-185.
AppFallback ==
    FilterSet(<<
        Filter(S("text_input"), S("Number of days"), S("fallback_num_days"), Absent),
        Filter(S("radio"), S("Travel style"), S("fallback_travel_style"),
               Arr(<<S("Luxury"), S("Backpacking"), S("Budget")>>))>>)

\* Mutant: the fallback is the empty filter list.
fallback_filters_Empty(r) == EmptyFilters

\* The FilterSet returned when no attempt gave a valid one.
fallback_filters(r) == IF r = "filters" THEN FiltersFallback ELSE AppFallback

\* ------------------------------------------------- display_custom_filters

\* str(v): a str is itself; None prints as "None"; other values by their text.
PyStr(v) ==
    CASE v.t = "str" -> v.s
      [] v = None -> <<"None">>
      [] v.t = "lit" -> v.s
      [] OTHER -> <<"<repr>">>

RECURSIVE Take(_, _)
\* The first n characters of a string.
Take(a, n) ==
    IF a = <<>> \/ n <= 0 THEN <<>>
    ELSE IF Len(Head(a)) <= n
         THEN <<Head(a)>> \o Take(Tail(a), n - Len(Head(a)))
         ELSE <<SubSeq(Head(a), 1, n)>>

\* filters.py lines 207, 210, 221, 224, 241, 244: the slice [:100].
LabelLimit == 100

\* not v
Falsy(v) ==
    \/ v = None
    \/ v \in {Lit("0"), Lit("false")}
    \/ v.t \in {"str"} /\ v.s = <<>>
    \/ v.t \in {"arr", "obj"} /\ v.e = <<>>

\* A value that can be a dict key.
Hashable(v) == v.t \in {"str", "lit"}

PyBool(b) == IF b THEN Lit("true") ELSE Lit("false")

\* One entry of user_custom_choices.
Entry(k, v) == [t |-> "ent", s |-> <<>>, e |-> <<k, v>>]

\* user_custom_choices[k] = v
ChoiceSet(cs, k, v) ==
    IF \E i \in DOMAIN cs : cs[i].e[1] = k
    THEN [i \in DOMAIN cs |-> IF cs[i].e[1] = k THEN Entry(k, v) ELSE cs[i]]
    ELSE Append(cs, Entry(k, v))

ChoiceKeys(cs) == {cs[i].e[1] : i \in DOMAIN cs}
ChoiceOf(cs, k) == (CHOOSE c \in Range(cs) : c.e[1] = k).e[2]

\* A widget put on the page.
Widget(kind, key, label) == [kind |-> kind, key |-> key, label |-> label]

\* f"custom_{f_label}"
DefaultKey(label) == Str(<<"custom_">> \o PyStr(label))

\* filters.py lines 206-211 (and 220-225, 240-245): what is shown for an option
\* and what is stored for it.
OptionPair(opt) ==
    IF IsObject(opt) /\ HasKey(opt, <<"label">>) /\ HasKey(opt, <<"value">>)
    THEN [label |-> Str(Take(PyStr(Field(opt, "label")), LabelLimit)),
          value |-> Field(opt, "value")]
    ELSE [label |-> Str(Take(PyStr(opt), LabelLimit)),
          value |-> Str(Take(PyStr(opt), LabelLimit))]

\* What the user does with the page: the text typed into text widgets, the
\* position picked in radios and selectboxes, the positions ticked in
\* checkboxes.
UserTexts == {<<>>, <<"typed">>}
MaxPick == 2
Users == [txt : UserTexts, pick : 1..MaxPick, ticks : SUBSET (1..MaxPick)]

\* The widgets as they come up: nothing typed, the first option, no tick.
NothingEntered == [txt |-> <<>>, pick |-> 1, ticks |-> {}]

\* st.radio / st.selectbox over options: the option at the picked position
\* (the last one when there are fewer), None when there are no options.
Picked(options, u) ==
    IF options = <<>> THEN None
    ELSE options[IF u.pick <= Len(options) THEN u.pick ELSE Len(options)]

\* list.index(x): the first position holding x.
IndexOf(q, x) == CHOOSE i \in DOMAIN q : q[i] = x /\ \A j \in DOMAIN q : q[j] = x => i <= j

\* The state of rendering: raised, the choices so far, the widgets so far.
Rendering(r, cs, ws) == [raised |-> r, choices |-> cs, widgets |-> ws]

\* Lines 216-234 and 236-253: a radio or a selectbox.
RenderSingleChoice(kind, f_label, f_key, f_options, u, st) ==
    IF ~Iterable(f_options) \/ ~Hashable(f_key) THEN Rendering(TRUE, st.choices, st.widgets)
    ELSE LET pairs == [i \in DOMAIN Items(f_options) |-> OptionPair(Items(f_options)[i])]
             display_labels == [i \in DOMAIN pairs |-> pairs[i].label]
             stored_values == [i \in DOMAIN pairs |-> pairs[i].value]
             selected_label == Picked(display_labels, u)
             value == IF selected_label \in Range(display_labels)
                      THEN stored_values[IndexOf(display_labels, selected_label)]
                      ELSE None
         IN  Rendering(FALSE, ChoiceSet(st.choices, f_key, value),
                       Append(st.widgets, Widget(kind, f_key, f_label)))

RECURSIVE CheckboxWidgets(_, _, _, _)
CheckboxWidgets(pairs, f_key, f_label, i) ==
    IF i > Len(pairs) THEN <<>>
    ELSE <<Widget("checkbox", Str(PyStr(f_key) \o <<"_">> \o pairs[i].label.s), pairs[i].label)>>
         \o CheckboxWidgets(pairs, f_key, f_label, i + 1)

RECURSIVE Chosen(_, _, _)
\* Lines 203-213: the stored values of the ticked options, in option order.
Chosen(pairs, u, i) ==
    IF i > Len(pairs) THEN <<>>
    ELSE (IF i \in u.ticks THEN <<pairs[i].value>> ELSE <<>>) \o Chosen(pairs, u, i + 1)

\* Lines 197-214: a checkbox.
RenderCheckbox(f_label, f_key, f_options, u, st) ==
    IF Falsy(f_options)
    THEN IF ~Hashable(f_key) THEN Rendering(TRUE, st.choices, st.widgets)
         ELSE Rendering(FALSE, ChoiceSet(st.choices, f_key, PyBool(1 \in u.ticks)),
                        Append(st.widgets, Widget("checkbox", f_key, f_label)))
    ELSE IF ~Iterable(f_options) \/ ~Hashable(f_key)
         THEN Rendering(TRUE, st.choices, st.widgets)
         ELSE LET pairs == [i \in DOMAIN Items(f_options) |-> OptionPair(Items(f_options)[i])]
              IN  Rendering(FALSE, ChoiceSet(st.choices, f_key, Arr(Chosen(pairs, u, 1))),
                            st.widgets \o CheckboxWidgets(pairs, f_key, f_label, 1))

\* Lines 191-258: one filter of option_filters. A type that is none of
\* checkbox, radio, selectbox, text_input matches no branch.
RenderOptionFilter(filt, u, st) ==
    LET f_type == DictGet(filt, <<"type">>, S("radio"))
        f_label == DictGet(filt, <<"label">>, S("Filter"))
        f_key == DictGet(filt, <<"key">>, DefaultKey(f_label))
        f_options == DictGet(filt, <<"options">>, Arr(<<>>))
    IN  CASE f_type = S("checkbox") -> RenderCheckbox(f_label, f_key, f_options, u, st)
          [] f_type = S("radio") -> RenderSingleChoice("radio", f_label, f_key, f_options, u, st)
          [] f_type = S("selectbox") ->
                RenderSingleChoice("selectbox", f_label, f_key, f_options, u, st)
          [] f_type = S("text_input") ->
                IF ~Hashable(f_key) THEN Rendering(TRUE, st.choices, st.widgets)
                ELSE Rendering(FALSE, ChoiceSet(st.choices, f_key, Str(u.txt)),
                               Append(st.widgets, Widget("text_input", f_key, f_label)))
          [] OTHER -> st

RECURSIVE RenderOptionFilters(_, _, _)
\* Lines 190-258: the loop over option_filters; an exception ends it.
RenderOptionFilters(fs, u, st) ==
    IF fs = <<>> \/ st.raised THEN st
    ELSE RenderOptionFilters(Tail(fs), u, RenderOptionFilter(Head(fs), u, st))

\* Mutant: the built-in free-text definition is stored under another key.
DefaultFreeText_OtherKey ==
    Filter(S("text_input"), S("Describe your requirements:"), S("custom_text"), Absent)

\* Lines 260-266: the free-text definition used when the list holds none.
DefaultFreeText == Filter(S("text_input"), S("Describe your requirements:"),
                          S("default_custom_text"), Absent)

IsTextInput(filt) == DictGet(filt, <<"type">>, None) = S("text_input")

\* filters.py lines 165-276. filt.get raises for an element that is no dict;
\* the final text area reads free_text_filter["label"] and ["key"].
display_custom_filters(defs, u) ==
    IF \E i \in DOMAIN defs : ~IsObject(defs[i])
    THEN Rendering(TRUE, <<>>, <<>>)
    ELSE LET texts == {i \in DOMAIN defs : IsTextInput(defs[i])}
             first == IF texts = {} THEN 0
                      ELSE CHOOSE i \in texts : \A j \in texts : i <= j
             option_filters ==
                 SelectSeq([i \in DOMAIN defs |-> <<i, defs[i]>>],
                           LAMBDA p : p[1] # first)
             st == RenderOptionFilters([i \in DOMAIN option_filters |-> option_filters[i][2]],
                                       u, Rendering(FALSE, <<>>, <<>>))
             free_text_filter == IF first = 0 THEN DefaultFreeText ELSE defs[first]
         IN  IF st.raised THEN st
             ELSE IF \/ ~HasKey(free_text_filter, <<"label">>)
                     \/ ~HasKey(free_text_filter, <<"key">>)
                     \/ ~Hashable(Field(free_text_filter, "key"))
                  THEN Rendering(TRUE, st.choices, st.widgets)
                  ELSE Rendering(FALSE,
                                 ChoiceSet(st.choices, Field(free_text_filter, "key"), Str(u.txt)),
                                 Append(st.widgets,
                                        Widget("text_area", Field(free_text_filter, "key"),
                                               Field(free_text_filter, "label"))))

\* app.py lines 215, 221: the options shown when a radio or selectbox has none.
AppDefaultOptions == Arr(<<S("Option 1"), S("Option 2")>>)

\* app.py lines 199-228: one filter definition; the answer is stored under the
\* label, and an unrecognized type is shown as a text input.
AppRenderFilter(filter_def, u, st) ==
    IF ~IsObject(filter_def) THEN Rendering(TRUE, st.choices, st.widgets)
    ELSE
    LET f_type == DictGet(filter_def, <<"type">>, S("text_input"))
        f_label == DictGet(filter_def, <<"label">>, S("Filter"))
        f_key == DictGet(filter_def, <<"key">>, DefaultKey(f_label))
        given == DictGet(filter_def, <<"options">>, Arr(<<>>))
        f_options == IF Falsy(given) THEN AppDefaultOptions ELSE given
        put(kind, val) ==
            IF ~Hashable(f_label) THEN Rendering(TRUE, st.choices, st.widgets)
            ELSE Rendering(FALSE, ChoiceSet(st.choices, f_label, val),
                           Append(st.widgets, Widget(kind, f_key, f_label)))
    IN  CASE f_type = S("text_input") -> put("text_input", Str(u.txt))
          [] f_type = S("checkbox") -> put("checkbox", PyBool(1 \in u.ticks))
          [] f_type \in {S("radio"), S("selectbox")} ->
                IF ~Iterable(f_options) THEN Rendering(TRUE, st.choices, st.widgets)
                ELSE put(f_type.s[1], Picked(Items(f_options), u))
          [] OTHER -> put("text_input", Str(u.txt))

RECURSIVE AppRenderFilters(_, _, _)
AppRenderFilters(fs, u, st) ==
    IF fs = <<>> \/ st.raised THEN st
    ELSE AppRenderFilters(Tail(fs), u, AppRenderFilter(Head(fs), u, st))

\* app.py lines 191-230.
app_display_custom_filters(defs, u) ==
    AppRenderFilters(defs, u, Rendering(FALSE, <<>>, <<>>))

\* --------------------------------------- what the generation model may answer

Opts == Arr(<<S("A"), S("B")>>)

\* Elements of a "custom_filters" list: well-formed definitions (two keys, a
\* type the renderer does not know), definitions with a field missing, empty or
\* null, and elements that are no objects.
WellFormedDefs ==
    { Filter(S("radio"), S("Level?"), S("k1"), Opts),
      Filter(S("text_input"), S("Describe"), S("k1"), Absent),
      Filter(S("text_input"), S("Describe"), S("k2"), Absent),
      Filter(S("slider"), S("Amount"), S("k2"), Absent) }

MissingFieldDefs ==
    { Filter(Absent, S("Level?"), S("k1"), Opts),
      Filter(S("radio"), Absent, S("k1"), Opts),
      Filter(S("radio"), S("Level?"), Absent, Opts),
      Obj(<<>>) }

EmptyFieldDefs ==
    { Filter(Str(<<>>), S("Level?"), S("k1"), Opts),
      Filter(S("radio"), None, S("k1"), Opts),
      Filter(S("radio"), S("Level?"), Str(<<>>), Opts) }

NonObjectElements ==
    { Str(<<"type", "label", "key">>),
      S("type"),
      Lit("0"),
      Arr(<<S("type"), S("label"), S("key")>>) }

Elements == WellFormedDefs \cup MissingFieldDefs \cup EmptyFieldDefs \cup NonObjectElements

\* All sequences over set of length at most n.
SeqsUpTo(set, n) == UNION {[1..k -> set] : k \in 0..n}

\* Values standing where the list should be.
NonListValues ==
    { Obj(<<Mem(<<"type", "label", "key">>, Lit("1"))>>),
      Obj(<<Mem(<<"k1">>, Filter(S("radio"), S("Level?"), S("k1"), Opts))>>),
      Obj(<<>>),
      Str(<<>>),
      S("none"),
      None,
      Lit("0") }

\* Parsed outputs: an object with the list, with something else in its place,
\* without the field, and values that are no object.
Candidates ==
    { FilterSet(defs) : defs \in SeqsUpTo(Elements, MaxFilters) }
    \cup { Obj(<<Mem(<<"custom_filters">>, v)>>) : v \in NonListValues }
    \cup { Obj(<<>>),
           Obj(<<Mem(<<"filters">>, Arr(<<Filter(S("radio"), S("Level?"), S("k1"), Opts)>>))>>),
           Arr(<<S("custom_filters")>>),
           S("custom_filters"),
           Lit("0") }

\* Tokens of the commentary a reply may carry around its payload.
CommentaryTokens == {WORD, FENCE, WS, LBRACE, RBRACE}
Commentary == SeqsUpTo(CommentaryTokens, MaxCommentary)

\* Payloads tried with commentary around them: one that validates, one that
\* lacks a key.
EmbeddedPayloads ==
    { FilterSet(<<Filter(S("radio"), S("Level?"), S("k1"), Opts)>>),
      FilterSet(<<Filter(S("radio"), S("Level?"), Absent, Opts)>>) }

\* response.text: a serialized value, a payload inside commentary, or
\* commentary alone.
RawOutputs ==
    { Serialize(c) : c \in Candidates }
    \cup { pre \o Serialize(c) \o post :
             pre \in Commentary, c \in EmbeddedPayloads, post \in Commentary }
    \cup Commentary

\* model.generate_content(...) followed by response.text: raises, or gives text.
Replies ==
    { [raises |-> TRUE, text |-> <<>>] }
    \cup { [raises |-> FALSE, text |-> t] : t \in RawOutputs }

\* ------------------------------------------------------------------- state

VARIABLES
    rev,            \* "filters": main.py with filters.py; "app": app.py
    pc,             \* position in generate_dynamic_filters
    model,          \* what load_gemini_pro returned: "unset", "loaded", "none"
    attempt,        \* the loop variable of filters.py line 113
    calls,          \* calls of model.generate_content made so far
    raw,            \* response.text of the latest call
    text_output,    \* the text given to json.loads in the latest attempt
    parsed_output,  \* what json.loads returned in the latest attempt
    verdicts,       \* per attempt made: "ok", "call_error", "parse_error", "invalid"
    result,         \* the value returned to the caller
    raised,         \* an exception left generate_dynamic_filters (no statement of
                    \* either revision lets one out: load_gemini_pro catches its
                    \* own, the rest runs inside try / except Exception)
    custom_filters,       \* the argument of display_custom_filters
    user_custom_choices,  \* the dict display_custom_filters returns
    widgets,              \* the input widgets display_custom_filters put on the page
    display_raised,       \* an exception left display_custom_filters
    user_input            \* what the user did with the widgets of that call

\* The state of display_custom_filters.
dvars == <<custom_filters, user_custom_choices, widgets, display_raised, user_input>>

VARIABLES
    naive_prompt,    \* the text in the "Enter Your Naive Prompt" text area
    extracted_text,  \* main.py: the text extracted from the uploaded files
    session_state,   \* st.session_state: a dict from the keys set so far
    run              \* what the latest script run or callback did (see NoRun)

\* The state of the page.
pvars == <<naive_prompt, extracted_text, session_state, run>>

vars == <<rev, pc, model, attempt, calls, raw, text_output, parsed_output,
          verdicts, result, raised, dvars, pvars>>

\* A dict without keys.
EmptyDict == [k \in {} |-> <<>>]

\* What a script run or callback is recorded to have done: the event that
\* started it, whether st.error was called, the exception that ended it
\* ("no", "refine", "display"), the prompts generate_dynamic_filters was called
\* with, the calls of generate_content it made for them, how the refine call
\* went ("none", "ok", "failed"), and the calls of generate_response_from_chatgpt
\* with what the chat model did and what came back.
NoRun == [event |-> "start", error |-> FALSE, raised |-> "no", synth |-> {},
          model_calls |-> 0, refine |-> "none", chat |-> <<>>]

\* The page variables of a run that has not shown the page.
PageUnused ==
    /\ naive_prompt = <<>>
    /\ extracted_text = <<>>
    /\ session_state = EmptyDict
    /\ run = NoRun

\* filters.py line 112.
attempts == 3

Init ==
    /\ rev \in {"filters", "app"}
    /\ pc = "start"
    /\ model = "unset"
    /\ attempt = 0
    /\ calls = 0
    /\ raw = <<>>
    /\ text_output = <<>>
    /\ parsed_output = NoValue
    /\ verdicts = <<>>
    /\ result = NoValue
    /\ raised = FALSE
    /\ custom_filters = <<>>
    /\ user_custom_choices = <<>>
    /\ widgets = <<>>
    /\ display_raised = FALSE
    /\ user_input = NothingEntered
    /\ PageUnused

\* ------------------------------------------- filters.py generate_dynamic_filters

\* Lines 107-110: load the model; without one, return the empty filter list.
LoadModel ==
    /\ rev = "filters"
    /\ pc = "start"
    /\ \E loaded \in BOOLEAN :
         IF loaded
         THEN /\ model' = "loaded"
              /\ pc' = "try"
              /\ UNCHANGED result
         ELSE /\ model' = "none"
              /\ pc' = "done"
              /\ result' = EmptyFilters
    /\ UNCHANGED <<rev, attempt, calls, raw, text_output, parsed_output, verdicts, raised, dvars, pvars>>

\* Mutant: the loop gives up one attempt early.
LoopContinues_StopsEarly(a) == a < attempts - 1

\* Mutant: the loop runs once more than attempts.
LoopContinues_OffByOne(a) == a <= attempts

\* range(attempts): the loop body runs for attempt = 0 .. attempts - 1.
LoopContinues(a) == a < attempts

\* Mutant: a valid payload does not end the loop.
AfterTry_NoReturn(valid) == "except"

\* Where the try block of lines 114-136 ends: at the return, or in the handler.
AfterTry(valid) == IF valid THEN "return" ELSE "except"

\* The outcome of lines 115-131 on one reply.
TryBody(reply) ==
    IF reply.raises
    THEN [verdict |-> "call_error", text |-> <<>>, parsed |-> NoValue]
    ELSE LET text == ExtractJson(strip(reply.text))
             p == json_loads(text)
         IN  IF ~p.ok
             THEN [verdict |-> "parse_error", text |-> text, parsed |-> NoValue]
             ELSE [verdict |-> IF Validates(p.v) THEN "ok" ELSE "invalid",
                   text |-> text, parsed |-> p.v]

\* Lines 113-133: one iteration of the loop up to the return or the exception.
Attempt ==
    /\ rev = "filters"
    /\ pc = "try"
    /\ LoopContinues(attempt)
    /\ \E reply \in Replies :
         LET o == TryBody(reply) IN
         /\ calls' = calls + 1
         /\ raw' = reply.text
         /\ text_output' = o.text
         /\ parsed_output' = o.parsed
         /\ verdicts' = Append(verdicts, o.verdict)
         /\ pc' = AfterTry(o.verdict = "ok")
    /\ UNCHANGED <<rev, model, attempt, result, raised, dvars, pvars>>

\* Line 133: return parsed_output.
Return ==
    /\ rev = "filters"
    /\ pc = "return"
    /\ result' = parsed_output
    /\ pc' = "done"
    /\ UNCHANGED <<rev, model, attempt, calls, raw, text_output, parsed_output,
                   verdicts, raised, dvars, pvars>>

\* Lines 135-136: the handler logs the error and the loop goes on; the
\* iteration's text and parse result are not read again.
Except ==
    /\ rev = "filters"
    /\ pc = "except"
    /\ attempt' = attempt + 1
    /\ raw' = <<>>
    /\ text_output' = <<>>
    /\ parsed_output' = NoValue
    /\ pc' = "try"
    /\ UNCHANGED <<rev, model, calls, verdicts, result, raised, dvars, pvars>>

\* Lines 138-160: the loop is over without a return.
Fallback ==
    /\ rev = "filters"
    /\ pc = "try"
    /\ ~LoopContinues(attempt)
    /\ result' = fallback_filters(rev)
    /\ pc' = "done"
    /\ UNCHANGED <<rev, model, attempt, calls, raw, text_output, parsed_output,
                   verdicts, raised, dvars, pvars>>

\* ----------------------------------------------- app.py generate_dynamic_filters

\* app.py lines 156-165 on one reply: strip and json.loads, nothing else.
AppTryBody(reply) ==
    IF reply.raises
    THEN [verdict |-> "call_error", text |-> <<>>, parsed |-> NoValue]
    ELSE LET text == strip(reply.text)
             p == json_loads(text)
         IN  IF ~p.ok
             THEN [verdict |-> "parse_error", text |-> text, parsed |-> NoValue]
             ELSE [verdict |-> "ok", text |-> text, parsed |-> p.v]

\* app.py lines 121-185: the whole function; every exception of the try block,
\* the missing model included, ends in the fallback.
AppGenerate ==
    /\ rev = "app"
    /\ pc = "start"
    /\ \E loaded \in BOOLEAN :
         IF ~loaded
         THEN /\ model' = "none"
              /\ result' = fallback_filters(rev)
              /\ UNCHANGED <<calls, raw, text_output, parsed_output, verdicts>>
         ELSE /\ model' = "loaded"
              /\ \E reply \in Replies :
                   LET o == AppTryBody(reply) IN
                   /\ calls' = calls + 1
                   /\ raw' = reply.text
                   /\ text_output' = o.text
                   /\ parsed_output' = o.parsed
                   /\ verdicts' = Append(verdicts, o.verdict)
                   /\ result' = IF o.verdict = "ok" THEN o.parsed
                                ELSE fallback_filters(rev)
    /\ pc' = "done"
    /\ UNCHANGED <<rev, attempt, raised, dvars, pvars>>

Next ==
    \/ LoadModel
    \/ Attempt
    \/ Return
    \/ Except
    \/ Fallback
    \/ AppGenerate

Spec == Init /\ [][Next]_vars

\* --------------------------------------------- the page renders a filter list

\* Definitions the renderer may be handed: the well-formed ones, checkboxes
\* with and without options, a selectbox with label/value options, a
\* definition whose type is null, and an element that is no object.
LabelledOpts ==
    Arr(<<Obj(<<Mem(<<"label">>, S("Alpha")), Mem(<<"value">>, S("a"))>>),
          Obj(<<Mem(<<"label">>, S("Beta")), Mem(<<"value">>, S("b"))>>)>>)

DisplayElements ==
    WellFormedDefs
    \cup { Filter(S("checkbox"), S("Areas?"), S("k3"), Opts),
           Filter(S("checkbox"), S("Agree?"), S("k3"), Absent),
           Filter(S("selectbox"), S("Pick"), S("k3"), LabelledOpts),
           Filter(None, S("Level?"), S("k1"), Opts),
           Str(<<"type", "label", "key">>) }

InitDisplay ==
    /\ rev \in {"filters", "app"}
    /\ pc = "display"
    /\ model = "unset"
    /\ attempt = 0
    /\ calls = 0
    /\ raw = <<>>
    /\ text_output = <<>>
    /\ parsed_output = NoValue
    /\ verdicts = <<>>
    /\ result = NoValue
    /\ raised = FALSE
    /\ custom_filters \in SeqsUpTo(DisplayElements, MaxFilters)
    /\ user_custom_choices = <<>>
    /\ widgets = <<>>
    /\ display_raised = FALSE
    /\ user_input = NothingEntered
    /\ PageUnused

\* The renderer of the revision in use.
DisplayOf(r, defs, u) ==
    IF r = "filters" THEN display_custom_filters(defs, u)
    ELSE app_display_custom_filters(defs, u)

\* main.py line 213 / app.py line 356: one run of display_custom_filters with
\* the user's input in the widgets.
Display ==
    /\ pc = "display"
    /\ \E u \in Users :
         LET st == DisplayOf(rev, custom_filters, u) IN
         /\ display_raised' = st.raised
         /\ user_input' = u
         /\ user_custom_choices' = IF st.raised THEN <<>> ELSE st.choices
         /\ widgets' = st.widgets
    /\ pc' = "displayed"
    /\ UNCHANGED <<rev, model, attempt, calls, raw, text_output, parsed_output,
                   verdicts, result, raised, custom_filters, pvars>>

NextDisplay == Display

SpecDisplay == InitDisplay /\ [][NextDisplay]_vars

\* ------------------------------------------ the page renders one option filter

\* Two strings of 101 characters that agree in their first 100.
LongA == "xxxxxxxxxxxxxxxxxxxxxxxxxxxxxxxxxxxxxxxxxxxxxxxxxxxxxxxxxxxxxxxxxxxxxxxxxxxxxxxxxxxxxxxxxxxxxxxxxxxxA"
LongB == "xxxxxxxxxxxxxxxxxxxxxxxxxxxxxxxxxxxxxxxxxxxxxxxxxxxxxxxxxxxxxxxxxxxxxxxxxxxxxxxxxxxxxxxxxxxxxxxxxxxxB"

LabelValue(la, va) == Obj(<<Mem(<<"label">>, la), Mem(<<"value">>, va)>>)

\* Options a definition may list: plain strings, one of them longer than 100
\* characters; label/value objects, two of them with the same label, two with
\* labels that agree in their first 100 characters.
OptionChoices ==
    { S("A"), S("B"), S(LongA),
      LabelValue(S("Alpha"), S("a")), LabelValue(S("Alpha"), S("b")),
      LabelValue(S(LongA), S("la")), LabelValue(S(LongB), S("lb")) }

\* One radio, selectbox or checkbox definition with up to MaxPick options, or
\* without the options field.
OptionFilterLists ==
    { <<Filter(S(ty), S("Pick"), S("k1"), opts)>> :
        ty \in {"radio", "selectbox", "checkbox"},
        opts \in {Arr(q) : q \in SeqsUpTo(OptionChoices, MaxPick)} \cup {Absent} }

InitOptions ==
    /\ rev \in {"filters", "app"}
    /\ pc = "display"
    /\ model = "unset"
    /\ attempt = 0
    /\ calls = 0
    /\ raw = <<>>
    /\ text_output = <<>>
    /\ parsed_output = NoValue
    /\ verdicts = <<>>
    /\ result = NoValue
    /\ raised = FALSE
    /\ custom_filters \in OptionFilterLists
    /\ user_custom_choices = <<>>
    /\ widgets = <<>>
    /\ display_raised = FALSE
    /\ user_input = NothingEntered
    /\ PageUnused

NextOptions == Display

SpecOptions == InitOptions /\ [][NextOptions]_vars

\* ---------------------------------------------------------------- the page

\* How many exchanges the chat panel is followed for.
MaxSends == 2

NL == Tok("ws", <<"newline">>)
DOC == Tok("w", <<"document">>)
REFINED == Tok("w", <<"Refined">>)
ANSWER == Tok("w", <<"Answer">>)
HELLO == Tok("w", <<"hello">>)

\* What the prompt box may hold, what the uploaded files may give (every file
\* adds its text and a newline), and what may be typed into the chat box.
NaivePrompts == {<<>>, <<WS>>, <<WORD>>}
ExtractedTexts == {<<>>, <<NL>>, <<DOC, NL>>}
ChatTexts == {<<>>, <<WS>>, <<HELLO>>}

\* main.py line 188.
combined_prompt(np, et) == np \o <<NL>> \o et

\* Mutant: only the empty string counts as blank.
Blank_EmptyOnly(p) == p = <<>>

\* not p.strip()
Blank(p) == strip(p) = <<>>

\* st.session_state
SessionHas(d, k) == k \in DOMAIN d
SessionGet(d, k, dflt) == IF k \in DOMAIN d THEN d[k] ELSE dflt
SessionPut(d, k, v) == [x \in DOMAIN d \cup {k} |-> IF x = k THEN v ELSE d[x]]

\* The replies of the generation model during a press of Generate Custom
\* Filters: a raised call, text that is no JSON, and two valid FilterSets, the
\* second inside a code fence.
PageFilterSets ==
    << FilterSet(<<Filter(S("radio"), S("Level?"), S("k1"), Opts)>>),
       FilterSet(<<Filter(S("checkbox"), S("Areas?"), S("k3"), Opts),
                   Filter(S("text_input"), S("Describe"), S("k2"), Absent)>>) >>

PageReplies ==
    { [raises |-> TRUE, text |-> <<>>],
      [raises |-> FALSE, text |-> <<WORD>>],
      [raises |-> FALSE, text |-> Serialize(PageFilterSets[1])],
      [raises |-> FALSE, text |-> <<FENCE>> \o Serialize(PageFilterSets[2]) \o <<FENCE, NL>>] }

RECURSIVE FiltersLoop(_, _)
\* filters.py lines 113-160 as a function of the replies the attempts get:
\* the FilterSet returned and the calls of generate_content made.
FiltersLoop(replies, a) ==
    IF ~LoopContinues(a)
    THEN [result |-> fallback_filters("filters"), calls |-> a]
    ELSE LET o == TryBody(replies[a + 1]) IN
         IF AfterTry(o.verdict = "ok") = "return"
         THEN [result |-> o.parsed, calls |-> a + 1]
         ELSE FiltersLoop(replies, a + 1)

\* generate_dynamic_filters of either revision as a function of what
\* load_gemini_pro and the attempts give.
generate_dynamic_filters(r, loaded, replies) ==
    IF r = "filters"
    THEN IF ~loaded THEN [result |-> EmptyFilters, calls |-> 0]
         ELSE FiltersLoop(replies, 0)
    ELSE IF ~loaded THEN [result |-> fallback_filters("app"), calls |-> 0]
         ELSE LET o == AppTryBody(replies[1]) IN
              [result |-> IF o.verdict = "ok" THEN o.parsed ELSE fallback_filters("app"),
               calls |-> 1]

\* What a press of Generate Custom Filters may get back.
GenerateOutcomes ==
    [r \in {"filters", "app"} |->
        { generate_dynamic_filters(r, loaded, replies) :
            loaded \in BOOLEAN, replies \in [1..(attempts + 1) -> PageReplies] }]

\* What load_gemini_pro and generate_content may do during a refinement: no
\* model, a raised call, a refined prompt with white space around it, or
\* white space alone.
RefineReplies ==
    { [loaded |-> FALSE, raises |-> FALSE, text |-> <<>>],
      [loaded |-> TRUE, raises |-> TRUE, text |-> <<>>],
      [loaded |-> TRUE, raises |-> FALSE, text |-> <<WS, REFINED, NL>>],
      [loaded |-> TRUE, raises |-> FALSE, text |-> <<NL>>] }

\* prompt_refinement.py lines 43-71: no try block; a missing model raises at
\* line 67 and an exception of generate_content is not caught.
refine_prompt_with_google_genai(prompt, g) ==
    IF ~g.loaded \/ g.raises
    THEN [raised |-> TRUE, text |-> <<>>, failed |-> TRUE]
    ELSE [raised |-> FALSE, text |-> strip(g.text), failed |-> FALSE]

\* app.py lines 236-287: the whole body is in a try block whose handler
\* returns naive_prompt.
app_refine_prompt_with_google_genai(prompt, g) ==
    IF ~g.loaded \/ g.raises
    THEN [raised |-> FALSE, text |-> prompt, failed |-> TRUE]
    ELSE [raised |-> FALSE, text |-> strip(g.text), failed |-> FALSE]

\* What openai.ChatCompletion.create may do: give a message content, raise
\* InvalidRequestError (the model is not available or the request is bad), or
\* raise something else.
ChatOutcomes ==
    { [kind |-> "ok", text |-> <<WS, ANSWER, WS, DOC, NL>>],
      [kind |-> "invalid_request", text |-> <<>>],
      [kind |-> "error", text |-> <<Tok("w", <<"timed out">>)>>] }

\* gpt4o_response.py line 14.
ChatModel == "gpt-4o-mini"

\* Mutant: the content is returned as it came.
ReturnedContent_Untrimmed(content) == content

\* gpt4o_response.py line 18: the content, stripped.
ReturnedContent(content) == strip(content)

\* Mutant: InvalidRequestError is answered by a second call with another model.
OnInvalidRequest_Retry(models) ==
    [text |-> <<ANSWER>>, models |-> Append(models, "gpt-4o")]

\* gpt4o_response.py lines 19-21: the fixed message (it starts with a warning
\* sign); no further call.
OnInvalidRequest(models) ==
    [text |-> <<Tok("w", <<"Invalid model or request parameters.">>)>>, models |-> models]

\* gpt4o_response.py lines 22-24.
OnException(e, models) ==
    [text |-> <<Tok("w", <<"Error in generating response: ">>)>> \o e, models |-> models]

\* gpt4o_response.py lines 7-24 (app.py lines 293-316 are the same): one call
\* of the chat model, every exception answered by a message.
generate_response_from_chatgpt(refined_prompt, o) ==
    LET models == <<ChatModel>>
        r == CASE o.kind = "ok" -> [text |-> ReturnedContent(o.text), models |-> models]
               [] o.kind = "invalid_request" -> OnInvalidRequest(models)
               [] OTHER -> OnException(o.text, models)
    IN  [raised |-> FALSE, text |-> r.text, models |-> r.models,
         prompt |-> refined_prompt, outcome |-> o]

\* Mutant: the first FilterSet stays once there is one.
StoreFilters_KeepFirst(sess, filters_data) ==
    IF "custom_filters_data" \in DOMAIN sess THEN sess
    ELSE [x \in DOMAIN sess \cup {"custom_filters_data"} |->
             IF x = "custom_filters_data" THEN filters_data ELSE sess[x]]

\* main.py line 196, app.py line 346.
StoreFilters(sess, filters_data) == SessionPut(sess, "custom_filters_data", filters_data)

\* The user of a script run leaves the filter widgets as they come up.
UntouchedWidgets == [txt |-> <<>>, pick |-> 1, ticks |-> {}]

\* main.py lines 210-213, app.py lines 353-356: the filter widgets of the run.
\* .get exists on a dict only; the renderer iterates over what it is given.
ShowFilters(r, sess) ==
    IF ~SessionHas(sess, "custom_filters_data")
    THEN [shown |-> FALSE, defs |-> <<>>, st |-> Rendering(FALSE, <<>>, <<>>)]
    ELSE LET data == sess["custom_filters_data"]
             custom_definitions == DictGet(data, <<"custom_filters">>, Arr(<<>>))
         IN  IF ~IsObject(data) \/ ~Iterable(custom_definitions)
             THEN [shown |-> TRUE, defs |-> <<>>, st |-> Rendering(TRUE, <<>>, <<>>)]
             ELSE [shown |-> TRUE, defs |-> Items(custom_definitions),
                   st |-> DisplayOf(r, Items(custom_definitions), UntouchedWidgets)]

\* Mutant: the refined prompt is written whenever there is one.
Prepopulate_Always(sess) ==
    LET refined_text == IF "refined_prompt" \in DOMAIN sess THEN sess["refined_prompt"] ELSE <<>>
    IN  IF refined_text # <<>>
        THEN [x \in DOMAIN sess \cup {"chat_input"} |->
                 IF x = "chat_input" THEN refined_text ELSE sess[x]]
        ELSE sess

\* main.py lines 231-234.
Prepopulate(sess) ==
    LET refined_text == SessionGet(sess, "refined_prompt", <<>>) IN
    IF refined_text # <<>> /\ SessionGet(sess, "chat_input", <<>>) = <<>>
    THEN SessionPut(sess, "chat_input", refined_text)
    ELSE sess

\* main.py line 270: the widget with key chat_input has its value in
\* st.session_state, the empty string when nothing has set it.
ChatInputWidget(sess) ==
    IF SessionHas(sess, "chat_input") THEN sess ELSE SessionPut(sess, "chat_input", <<>>)

\* No filter widgets on the page.
NotShown == [shown |-> FALSE, defs |-> <<>>, st |-> Rendering(FALSE, <<>>, <<>>)]

\* A script run as it goes: the session, what is recorded of the run (see
\* NoRun), the FilterSet generate_dynamic_filters returned and the filter
\* widgets shown. An exception ends the run: the steps after it change nothing.
StartRun(sess) ==
    [sess |-> sess, error |-> FALSE, raised |-> "no", synth |-> {}, model_calls |-> 0,
     returned |-> NoValue, refine |-> "none", shown |-> NotShown, chat |-> <<>>]

\* main.py lines 130-132.
EnsureHistory(sess) ==
    IF SessionHas(sess, "chat_history") THEN sess ELSE SessionPut(sess, "chat_history", <<>>)

\* main.py lines 190-197, app.py lines 340-347: the button Generate Custom
\* Filters; g is what generate_dynamic_filters returns if it is called.
GenerateButton(p, pressed, prompt, g) ==
    IF ~pressed \/ p.raised # "no" THEN p
    ELSE IF Blank(prompt) THEN [p EXCEPT !.error = TRUE]
    ELSE [p EXCEPT !.sess = StoreFilters(p.sess, g.result),
                   !.synth = {prompt},
                   !.model_calls = g.calls,
                   !.returned = g.result]

\* main.py lines 199-206 and 215-223, app.py lines 359-371: a refine button;
\* refined is what refine_prompt_with_google_genai does if it is called.
RefineButton(p, pressed, prompt, refined) ==
    IF ~pressed \/ p.raised # "no" THEN p
    ELSE IF Blank(prompt) THEN [p EXCEPT !.error = TRUE]
    ELSE IF refined.raised THEN [p EXCEPT !.raised = "refine", !.refine = "failed"]
    ELSE [p EXCEPT !.sess = SessionPut(p.sess, "refined_prompt", refined.text),
                   !.refine = IF refined.failed THEN "failed" ELSE "ok"]

\* main.py lines 210-213, app.py lines 353-356.
Shown(p, shown) ==
    [p EXCEPT !.shown = shown,
              !.raised = IF shown.st.raised THEN "display" ELSE "no"]

FilterWidgets(r, p) ==
    IF p.raised # "no" THEN p ELSE Shown(p, ShowFilters(r, p.sess))

\* main.py lines 228-271: the chat column.
ChatColumn(p) ==
    IF p.raised # "no" THEN p
    ELSE [p EXCEPT !.sess = ChatInputWidget(Prepopulate(p.sess))]

\* main.py lines 129-280, one run of the script: button is the button pressed
\* ("none" for a rerun without one), g what generate_dynamic_filters returns
\* and rf what the refinement model does when they are called.
MainScript(sess0, np, et, button, g, rf) ==
    ChatColumn(
      RefineButton(
        FilterWidgets("filters",
          RefineButton(
            GenerateButton(StartRun(EnsureHistory(sess0)),
                           button = "gen_custom_filters", combined_prompt(np, et), g),
            button = "refine_directly", combined_prompt(np, et),
            refine_prompt_with_google_genai(combined_prompt(np, et), rf))),
        button = "refine_with_filters", combined_prompt(np, et),
        refine_prompt_with_google_genai(combined_prompt(np, et), rf)))

\* app.py lines 322-371, one run of the script up to the refined prompt.
AppScript(sess0, np, button, g, rf) ==
    RefineButton(
      FilterWidgets("app",
        GenerateButton(StartRun(sess0), button = "gen_custom_filters", np, g)),
      button = "refine", np, app_refine_prompt_with_google_genai(np, rf))

Script(r, sess0, np, et, button, g, rf) ==
    IF r = "filters" THEN MainScript(sess0, np, et, button, g, rf)
    ELSE AppScript(sess0, np, button, g, rf)

NoFilters == [result |-> NoValue, calls |-> 0]
NoRefine == [loaded |-> FALSE, raises |-> FALSE, text |-> <<>>]

\* The page after its first run: nothing typed, nothing pressed.
InitPage ==
    /\ rev \in {"filters", "app"}
    /\ pc = "idle"
    /\ model = "unset"
    /\ attempt = 0
    /\ calls = 0
    /\ raw = <<>>
    /\ text_output = <<>>
    /\ parsed_output = NoValue
    /\ verdicts = <<>>
    /\ result = NoValue
    /\ raised = FALSE
    /\ custom_filters = <<>>
    /\ user_custom_choices = <<>>
    /\ widgets = <<>>
    /\ display_raised = FALSE
    /\ user_input = NothingEntered
    /\ naive_prompt = <<>>
    /\ extracted_text = <<>>
    /\ session_state = Script(rev, EmptyDict, <<>>, <<>>, "none", NoFilters, NoRefine).sess
    /\ run = NoRun

\* The state a script run leaves: the session, the record of the run, the
\* FilterSet generate_dynamic_filters returned if it was called, the filter
\* widgets on the page.
RunScript(event, o) ==
    /\ session_state' = o.sess
    /\ run' = [event |-> event, error |-> o.error, raised |-> o.raised, synth |-> o.synth,
               model_calls |-> o.model_calls, refine |-> o.refine, chat |-> o.chat]
    /\ result' = IF o.synth = {} THEN result ELSE o.returned
    /\ custom_filters' = o.shown.defs
    /\ user_custom_choices' = IF o.shown.st.raised THEN <<>> ELSE o.shown.st.choices
    /\ widgets' = o.shown.st.widgets
    /\ display_raised' = o.shown.st.raised
    /\ user_input' = UntouchedWidgets
    /\ pc' = "idle"
    /\ UNCHANGED <<rev, model, attempt, calls, raw, text_output, parsed_output,
                   verdicts, raised>>

\* The user changes the prompt box or the uploaded files; the script runs.
EditPrompt ==
    /\ pc = "idle"
    /\ \E np \in NaivePrompts,
          et \in (IF rev = "filters" THEN ExtractedTexts ELSE {<<>>}) :
         /\ <<np, et>> # <<naive_prompt, extracted_text>>
         /\ naive_prompt' = np
         /\ extracted_text' = et
         /\ RunScript("edit", Script(rev, session_state, np, et, "none", NoFilters, NoRefine))

\* The button Generate Custom Filters: main.py lines 190-197, app.py lines
\* 340-347, and the rest of the run.
PressGenerate ==
    /\ pc = "idle"
    /\ \E g \in GenerateOutcomes[rev] :
         RunScript("gen_custom_filters",
                   Script(rev, session_state, naive_prompt, extracted_text,
                          "gen_custom_filters", g, NoRefine))
    /\ UNCHANGED <<naive_prompt, extracted_text>>

\* The button Refine Prompt Directly: main.py lines 199-206.
PressRefineDirectly ==
    /\ pc = "idle"
    /\ rev = "filters"
    /\ \E rf \in RefineReplies :
         RunScript("refine_directly",
                   Script(rev, session_state, naive_prompt, extracted_text,
                          "refine_directly", NoFilters, rf))
    /\ UNCHANGED <<naive_prompt, extracted_text>>

\* The button Refine Prompt with Filters: main.py lines 215-223. It is on the
\* page when the run before got as far as drawing it.
PressRefineWithFilters ==
    /\ pc = "idle"
    /\ rev = "filters"
    /\ run.raised = "no"
    /\ \E rf \in RefineReplies :
         RunScript("refine_with_filters",
                   Script(rev, session_state, naive_prompt, extracted_text,
                          "refine_with_filters", NoFilters, rf))
    /\ UNCHANGED <<naive_prompt, extracted_text>>

\* The button Refine Prompt of app.py: lines 359-371.
AppPressRefine ==
    /\ pc = "idle"
    /\ rev = "app"
    /\ run.raised = "no"
    /\ \E rf \in RefineReplies :
         RunScript("refine",
                   Script(rev, session_state, naive_prompt, extracted_text,
                          "refine", NoFilters, rf))
    /\ UNCHANGED <<naive_prompt, extracted_text>>

NextPage ==
    \/ EditPrompt
    \/ PressGenerate
    \/ PressRefineDirectly
    \/ PressRefineWithFilters
    \/ AppPressRefine

SpecPage == InitPage /\ [][NextPage]_vars

\* A message of chat_history.
Message(role, content) == [role |-> role, content |-> content]

\* Mutant: the answer is put before the user's message.
Exchange_AnswerFirst(history, user_content, ai_content) ==
    history \o <<[role |-> "ai", content |-> ai_content],
                 [role |-> "user", content |-> user_content]>>

\* main.py lines 250-266: the two appends of send_message.
Exchange(history, user_content, ai_content) ==
    history \o <<Message("user", user_content), Message("ai", ai_content)>>

\* main.py lines 256-266: the answer, or the text of the exception that
\* generate_response_from_chatgpt let out.
AiContent(r) == IF r.raised THEN <<Tok("w", <<"Error: ">>)>> \o r.text ELSE r.text

\* main.py lines 247-267, the on_click callback of the Send button; o is what
\* the chat model does if it is called.
send_message(sess, o) ==
    IF Blank(sess["chat_input"]) THEN [sess |-> sess, chat |-> <<>>]
    ELSE [sess |-> SessionPut(
                     SessionPut(sess, "chat_history",
                                Exchange(sess["chat_history"], sess["chat_input"],
                                         AiContent(generate_response_from_chatgpt(
                                                       sess["chat_input"], o)))),
                     "chat_input", <<>>),
          chat |-> <<generate_response_from_chatgpt(sess["chat_input"], o)>>]

\* The user changes the text of the chat box (main.py line 270); a rerun
\* follows.
TypeChat ==
    /\ pc = "idle"
    /\ rev = "filters"
    /\ run.raised = "no"
    /\ \E t \in ChatTexts :
         /\ t # session_state["chat_input"]
         /\ session_state' = SessionPut(session_state, "chat_input", t)
    /\ run' = [NoRun EXCEPT !.event = "type"]
    /\ pc' = "rerun"
    /\ UNCHANGED <<rev, model, attempt, calls, raw, text_output, parsed_output,
                   verdicts, result, raised, dvars, naive_prompt, extracted_text>>

\* The Send button (main.py line 271): send_message runs; a rerun follows.
SendMessage ==
    /\ pc = "idle"
    /\ rev = "filters"
    /\ run.raised = "no"
    /\ Len(session_state["chat_history"]) < 2 * MaxSends
    /\ \E o \in ChatOutcomes :
         \E r \in {send_message(session_state, o)} :
            /\ session_state' = r.sess
            /\ run' = [NoRun EXCEPT !.event = "send", !.chat = r.chat]
    /\ pc' = "rerun"
    /\ UNCHANGED <<rev, model, attempt, calls, raw, text_output, parsed_output,
                   verdicts, result, raised, dvars, naive_prompt, extracted_text>>

\* The script run that follows a change of the chat box or a Send.
Rerun ==
    /\ pc = "rerun"
    /\ RunScript("rerun", Script(rev, session_state, naive_prompt, extracted_text,
                                 "none", NoFilters, NoRefine))
    /\ UNCHANGED <<naive_prompt, extracted_text>>

\* app.py lines 374-382 after lines 322-371: the script run of the button Get
\* Final Answer, which is on the page once there is a refined prompt.
FinalAnswer(o, co) ==
    IF o.raised = "no" /\ SessionHas(o.sess, "refined_prompt")
    THEN [o EXCEPT !.chat = <<generate_response_from_chatgpt(o.sess["refined_prompt"], co)>>]
    ELSE o

AppFinalAnswer ==
    /\ pc = "idle"
    /\ rev = "app"
    /\ run.raised = "no"
    /\ SessionHas(session_state, "refined_prompt")
    /\ \E co \in ChatOutcomes :
         RunScript("final_answer",
                   FinalAnswer(Script(rev, session_state, naive_prompt, extracted_text,
                                      "none", NoFilters, NoRefine), co))
    /\ UNCHANGED <<naive_prompt, extracted_text>>

NextChat ==
    \/ EditPrompt
    \/ PressRefineDirectly
    \/ AppPressRefine
    \/ TypeChat
    \/ SendMessage
    \/ Rerun
    \/ AppFinalAnswer

SpecChat == InitPage /\ [][NextChat]_vars

\* ------------------------------------------------------- reading a result

Last(q) == q[Len(q)]

\* The latest attempt passed the code's checks and its payload was returned.
ReturnedModelOutput ==
    /\ pc = "done"
    /\ verdicts # <<>>
    /\ Last(verdicts) = "ok"
    /\ result = parsed_output

AllAttemptsFailed ==
    /\ verdicts # <<>>
    /\ \A i \in DOMAIN verdicts : verdicts[i] # "ok"

HasListField(v) == v.t = "obj" /\ HasKey(v, <<"custom_filters">>)

\* The value under "custom_filters" (None when there is no such field).
ListField(v) == IF HasListField(v) THEN DictGet(v, <<"custom_filters">>, None) ELSE None

\* The definitions of a FilterSet: the elements of its list.
Defs(v) == IF ListField(v).t = "arr" THEN ListField(v).e ELSE <<>>


MissingRequired(d) ==
    IsObject(d) /\ \E k \in {"type", "label", "key"} : ~HasKey(d, <<k>>)

\* ------------------------------------------------------------------ claims

\* C1 (as claimed): every invocation returns without raising, and what it
\* returns is either the payload of an attempt that passed validation or the
\* fixed fallback FilterSet.
C1_ReturnsValidatedOrFallback ==
    pc = "done" =>
        /\ ~raised
        /\ \/ result = fallback_filters(rev)
           \/ ReturnedModelOutput

\* C2: the generation model is called at most attempts (3) times in one
\* invocation, once per attempt begun, whatever the outcomes are.
C2_AtMostMaxAttemptsCalls ==
    /\ calls <= attempts
    /\ calls = Len(verdicts)
    /\ (rev = "filters" /\ pc = "try") => calls = attempt
    /\ (rev = "filters" /\ pc \in {"return", "except"}) => calls = attempt + 1

\* C2 witness: three calls were made, one raised, one gave unparseable text
\* and one gave an invalid structure.
C2_Witness ==
    /\ pc = "done"
    /\ calls = attempts
    /\ {"call_error", "parse_error", "invalid"} \subseteq Range(verdicts)

\* C3: attempts are sequential and stop at the first success: a call is made
\* only when every earlier attempt has failed, and a valid attempt's payload is
\* what is returned.
C3_SequentialStopAtFirstSuccess ==
    [][ /\ (calls' # calls) =>
             /\ calls' = calls + 1
             /\ Len(verdicts) = calls
             /\ \A i \in DOMAIN verdicts : verdicts[i] # "ok"
        /\ (pc' = "done" /\ "ok" \in Range(verdicts')) =>
             /\ Last(verdicts') = "ok"
             /\ result' = parsed_output'
             /\ rev = "filters" => json_loads(ExtractJson(strip(raw'))).v = result'
      ]_vars

\* C3 witness: the second attempt succeeded after a failed first one and its
\* payload was returned after exactly two calls.
C3_Witness ==
    /\ rev = "filters"
    /\ pc = "done"
    /\ Len(verdicts) = 2
    /\ verdicts[1] # "ok"
    /\ verdicts[2] = "ok"
    /\ calls = 2
    /\ result = parsed_output

C5_NeverReturnsIncomplete ==
    ReturnedModelOutput =>
        /\ HasListField(result)
        /\ \A i \in DOMAIN Defs(result) : ~MissingRequired(Defs(result)[i])

\* The validation of filters.py alone does reject the candidates of C5: what
\* filters.py returns from the model has the field and no definition missing
\* type, label or key.
FiltersRejectsIncomplete ==
    rev = "filters" => C5_NeverReturnsIncomplete

\* C6 (as claimed): no two definitions of a returned FilterSet share a key.
C6_KeysUnique ==
    (rev = "filters" /\ pc = "done") =>
        \A i, j \in DOMAIN Defs(result) :
            LET a == Defs(result)[i]
                b == Defs(result)[j]
            IN  (i # j /\ IsObject(a) /\ IsObject(b)
                 /\ HasKey(a, <<"key">>) /\ HasKey(b, <<"key">>))
                => Field(a, "key") # Field(b, "key")

\* C7 (as claimed): in a returned FilterSet every definition's type, label and
\* key are non-empty; a definition with one of them empty or null is rejected.
C7_FieldsNonEmpty ==
    (rev = "filters" /\ pc = "done") =>
        \A i \in DOMAIN Defs(result) :
            LET d == Defs(result)[i] IN
            IsObject(d) =>
                \A k \in {"type", "label", "key"} :
                    HasKey(d, <<k>>) => NonEmptyStr(Field(d, k))

\* C8 (as claimed): a parsed output of the wrong shape (custom_filters is no
\* list, or an element of the list is no object) is never returned, and
\* nothing is raised.
C8_WrongShapeRejected ==
    (rev = "filters" /\ pc = "done") =>
        /\ ~raised
        /\ ReturnedModelOutput =>
             /\ ListField(result).t = "arr"
             /\ \A i \in DOMAIN Defs(result) : IsObject(Defs(result)[i])

\* For each payload c, the replies that are commentary, the text of c,
\* commentary.
Wrappings ==
    [c \in EmbeddedPayloads |->
        { pre \o Serialize(c) \o post : pre \in Commentary, post \in Commentary }]

\* The same, with no "{" in the commentary before c and no "}" in the
\* commentary after it.
BraceFreeWrappings ==
    [c \in EmbeddedPayloads |->
        { pre \o Serialize(c) \o post :
            pre \in {q \in Commentary : LBRACE \notin Range(q)},
            post \in {q \in Commentary : RBRACE \notin Range(q)} }]

\* The latest attempt of filters.py got a reply of the set texts.
GotReplyIn(texts) ==
    /\ rev = "filters"
    /\ pc \in {"return", "except", "done"}
    /\ calls > 0
    /\ raw \in texts

\* The embedded payload was accepted on that attempt, and returned.
Accepted(c) ==
    /\ Last(verdicts) = "ok"
    /\ parsed_output = c
    /\ pc # "except"
    /\ pc = "done" => result = c

\* C9 (as claimed): a payload that validates on its own is extracted and
\* accepted whatever commentary stands before and after it.
C9_AnyCommentaryTolerated ==
    \A c \in EmbeddedPayloads :
        (GotReplyIn(Wrappings[c]) /\ Validates(c)) => Accepted(c)

\* C9 (amended): a payload that validates on its own is extracted and accepted
\* when the commentary before it holds no "{" and the commentary after it no "}".
C9_BraceFreeCommentaryTolerated ==
    \A c \in EmbeddedPayloads :
        (GotReplyIn(BraceFreeWrappings[c]) /\ Validates(c)) => Accepted(c)

\* C9 witness: a valid payload inside code fences was returned.
C9_Witness ==
    \E c \in EmbeddedPayloads :
        /\ GotReplyIn({<<FENCE>> \o Serialize(c) \o <<FENCE>>})
        /\ Validates(c)
        /\ pc = "done"
        /\ result = c

RecognizedTypes == {S("text_input"), S("radio"), S("selectbox"), S("checkbox")}

\* A definition with a non-empty type, label and key.
WellFormedDef(d) ==
    /\ IsObject(d)
    /\ \A k \in {"type", "label", "key"} : NonEmptyStr(Field(d, k))

\* A list of well-formed definitions with distinct keys and distinct labels.
WellFormedList(defs) ==
    /\ \A i \in DOMAIN defs : WellFormedDef(defs[i])
    /\ \A i, j \in DOMAIN defs :
          i # j => /\ Field(defs[i], "key") # Field(defs[j], "key")
                   /\ Field(defs[i], "label") # Field(defs[j], "label")

\* C10 (as claimed): a definition whose type is not one of text_input, radio,
\* selectbox, checkbox is shown as a plain text entry and its answer, the text
\* typed, is collected; nothing is raised.
C10_UnknownTypeIsFreeText ==
    (pc = "displayed" /\ WellFormedList(custom_filters)) =>
        \A i \in DOMAIN custom_filters :
            LET d == custom_filters[i] IN
            Field(d, "type") \notin RecognizedTypes =>
                /\ ~display_raised
                /\ \E w \in Range(widgets) :
                      /\ w.kind \in {"text_input", "text_area"}
                      /\ w.key = Field(d, "key")
                /\ \E k \in {Field(d, "key"), Field(d, "label")} :
                      /\ k \in ChoiceKeys(user_custom_choices)
                      /\ ChoiceOf(user_custom_choices, k).t = "str"

\* The renderer of app.py alone does what C10 says: its else branch shows a
\* text input for a type it does not know.
AppRendersUnknownAsText ==
    rev = "app" => C10_UnknownTypeIsFreeText

\* C11 (as claimed): the answers returned by display_custom_filters have one
\* entry per filter definition, keyed by the definition's key: the set of
\* answer keys is the set of definition keys.
C11_AnswerKeysAreDefinitionKeys ==
    (pc = "displayed" /\ WellFormedList(custom_filters) /\ ~display_raised) =>
        ChoiceKeys(user_custom_choices)
            = {Field(custom_filters[i], "key") : i \in DOMAIN custom_filters}

\* filters.py alone, on definitions of the types it knows: the answers are
\* keyed by the definitions' keys, plus default_custom_text when the list holds
\* no text_input definition.
FiltersKeysAnswersByKey ==
    (/\ pc = "displayed"
     /\ rev = "filters"
     /\ WellFormedList(custom_filters)
     /\ \A i \in DOMAIN custom_filters :
           Field(custom_filters[i], "type") \in RecognizedTypes) =>
        /\ ~display_raised
        /\ ChoiceKeys(user_custom_choices)
             = {Field(custom_filters[i], "key") : i \in DOMAIN custom_filters}
               \cup (IF \E i \in DOMAIN custom_filters :
                           Field(custom_filters[i], "type") = S("text_input")
                     THEN {} ELSE {S("default_custom_text")})

\* The text_input definitions of a list.
TextInputs(defs) == {i \in DOMAIN defs : IsObject(defs[i]) /\ Field(defs[i], "type") = S("text_input")}

\* C17: when every attempt of filters.py ends in text that does not parse, the
\* generation model has been called exactly attempts times and the result is
\* the fallback FilterSet, which holds exactly one text_input definition.
C17_UnparseableEveryAttempt ==
    (/\ rev = "filters"
     /\ pc = "done"
     /\ verdicts # <<>>
     /\ \A i \in DOMAIN verdicts : verdicts[i] = "parse_error") =>
        /\ calls = attempts
        /\ result = FiltersFallback
        /\ Cardinality(TextInputs(Defs(result))) = 1

C17_Witness ==
    /\ rev = "filters"
    /\ pc = "done"
    /\ Len(verdicts) = attempts
    /\ \A i \in DOMAIN verdicts : verdicts[i] = "parse_error"
    /\ result = FiltersFallback

\* The list holds definitions only: every element is an object.
AllObjects(defs) == \A i \in DOMAIN defs : IsObject(defs[i])

DistinctKeys(defs) ==
    \A i, j \in DOMAIN defs : i # j => Field(defs[i], "key") # Field(defs[j], "key")

\* The key under which the free-form text is stored: that of the first
\* text_input definition, or the built-in one.
FreeTextKey(defs) ==
    IF TextInputs(defs) = {} THEN S("default_custom_text")
    ELSE LET first == CHOOSE i \in TextInputs(defs) : \A j \in TextInputs(defs) : i <= j
         IN  Field(defs[first], "key")

\* The definition a widget was rendered for, found by the key the widget's key
\* starts with.
SourceOf(w, defs) == CHOOSE k \in DOMAIN defs : Field(defs[k], "key").s[1] = w.key.s[1]

PagePrompt == IF rev = "filters" THEN combined_prompt(naive_prompt, extracted_text)
              ELSE naive_prompt

RefineEvents == {"refine_directly", "refine_with_filters", "refine"}

\* C12 (as claimed): when the model cannot be loaded or its call fails,
\* refine_prompt_with_google_genai raises nothing and returns the prompt it was
\* given, so the press of a refine button ends with that prompt stored as
\* refined_prompt.
C12_RefineNeverRaises ==
    (run.event \in RefineEvents /\ run.refine = "failed") =>
        /\ run.raised = "no"
        /\ SessionHas(session_state, "refined_prompt")
        /\ session_state["refined_prompt"] = PagePrompt

\* The refinement of app.py alone does what C12 says.
AppRefineReturnsNaivePrompt ==
    rev = "app" => C12_RefineNeverRaises

\* C15: generate_dynamic_filters is never called with an empty or
\* whitespace-only prompt; a press of Generate Custom Filters with such a
\* prompt shows the error message, calls neither generate_dynamic_filters nor
\* the generation model.
C15_BlankPromptRejected ==
    /\ \A p \in run.synth : \E i \in DOMAIN p : ~IsWs(p[i])
    /\ (run.event = "gen_custom_filters" /\ \A i \in DOMAIN PagePrompt : IsWs(PagePrompt[i])) =>
          /\ run.error
          /\ run.synth = {}
          /\ run.model_calls = 0
    /\ (run.event = "gen_custom_filters" /\ \E i \in DOMAIN PagePrompt : ~IsWs(PagePrompt[i])) =>
          /\ ~run.error
          /\ run.synth = {PagePrompt}

\* A press with a whitespace-only prompt was rejected.
C15_Witness ==
    /\ run.event = "gen_custom_filters"
    /\ naive_prompt = <<WS>>
    /\ \A i \in DOMAIN PagePrompt : IsWs(PagePrompt[i])
    /\ run.error
    /\ run.synth = {}

\* C16: the FilterSet in the session is the one the latest accepted press of
\* Generate Custom Filters got from generate_dynamic_filters (result), whole
\* and nothing else, and its list is what display_custom_filters is given;
\* without an accepted press there is none.
C16_LatestFilterSetHeld ==
    /\ SessionHas(session_state, "custom_filters_data") <=> result # NoValue
    /\ SessionHas(session_state, "custom_filters_data") =>
          /\ session_state["custom_filters_data"] = result
          /\ run.raised = "no" => custom_filters = Defs(result)
    /\ (run.event = "gen_custom_filters" /\ run.synth # {}) =>
          /\ SessionHas(session_state, "custom_filters_data")
          /\ run.model_calls <= attempts

\* The second FilterSet of a run is on the page, the first one gone.
C16_Witness ==
    /\ rev = "filters"
    /\ run.event = "gen_custom_filters"
    /\ run.synth # {}
    /\ result = PageFilterSets[2]
    /\ session_state["custom_filters_data"] = PageFilterSets[2]
    /\ custom_filters = Defs(PageFilterSets[2])
    /\ SessionHas(session_state, "refined_prompt")

\* t is c without the white space at its two ends.
Trimmed(t, c) ==
    /\ t # <<>> => ~IsWs(t[1]) /\ ~IsWs(t[Len(t)])
    /\ \E i \in 0..Len(c) : \E j \in i..Len(c) :
          /\ SubSeq(c, i + 1, j) = t
          /\ \A k \in (1..i) \cup ((j + 1)..Len(c)) : IsWs(c[k])

\* C13: generate_response_from_chatgpt lets no exception out; it makes one
\* call of the chat model; when the call succeeds it returns the content with
\* the white space around it removed, when it fails a message; what
\* send_message appends is that string.
C13_AnswerNeverRaises ==
    /\ Len(run.chat) <= 1
    /\ \A i \in DOMAIN run.chat :
          LET r == run.chat[i] IN
          /\ ~r.raised
          /\ Len(r.models) = 1
          /\ r.outcome.kind = "ok" => Trimmed(r.text, r.outcome.text)
          /\ r.outcome.kind # "ok" =>
                /\ r.text # <<>>
                /\ \A j \in DOMAIN r.text : ~IsWs(r.text[j])
          /\ run.event = "send" =>
                Last(session_state["chat_history"]) = Message("ai", r.text)

C13_Witness ==
    /\ run.event = "send"
    /\ Len(run.chat) = 1
    /\ run.chat[1].outcome.kind = "ok"
    /\ Last(session_state["chat_history"]).content = <<ANSWER, WS, DOC>>

\* C14 (as claimed): when the chat model is not available, one more call is
\* made with another model.
C14_RetriesOnceWithAlternate ==
    \A i \in DOMAIN run.chat :
        run.chat[i].outcome.kind = "invalid_request" =>
            /\ Len(run.chat[i].models) = 2
            /\ run.chat[i].models[2] # run.chat[i].models[1]

\* C14 (amended): when the chat model is not available, no other model is
\* tried and no second call made: the one call was for gpt-4o-mini and the
\* fixed message is returned.
C14_NoRetryWhenUnavailable ==
    \A i \in DOMAIN run.chat :
        run.chat[i].outcome.kind = "invalid_request" =>
            /\ run.chat[i].models = <<"gpt-4o-mini">>
            /\ run.chat[i].text = <<Tok("w", <<"Invalid model or request parameters.">>)>>
            /\ ~run.chat[i].raised

C14_Witness ==
    /\ Len(run.chat) = 1
    /\ run.chat[1].outcome.kind = "invalid_request"
    /\ run.event \in {"send", "final_answer"}

\* chat_history and chat_input of the session (empty when not set).
ChatHistory(sess) == SessionGet(sess, "chat_history", <<>>)
ChatInput(sess) == SessionGet(sess, "chat_input", <<>>)

NonBlank(p) == \E i \in DOMAIN p : ~IsWs(p[i])

\* User and ai messages alternate, a user message first.
PairsShape(h) ==
    /\ Len(h) % 2 = 0
    /\ \A i \in DOMAIN h : h[i].role = (IF i % 2 = 1 THEN "user" ELSE "ai")

\* C19: chat_history is a sequence of (user, ai) pairs; a Send with non-blank
\* input appends the user's message and one ai message and empties
\* chat_input; a Send with blank input and every other step leave
\* chat_history as it is; nothing is removed or reordered.
C19_ChatHistoryPairs ==
    [][LET h == ChatHistory(session_state)
           h2 == ChatHistory(session_state')
           sent == run'.event = "send" /\ NonBlank(ChatInput(session_state))
       IN  /\ PairsShape(h2)
           /\ Len(h2) >= Len(h)
           /\ SubSeq(h2, 1, Len(h)) = h
           /\ sent =>
                /\ Len(h2) = Len(h) + 2
                /\ h2[Len(h) + 1] = Message("user", ChatInput(session_state))
                /\ h2[Len(h) + 2].role = "ai"
                /\ NonBlank(h2[Len(h) + 2].content)
                /\ ChatInput(session_state') = <<>>
           /\ ~sent => h2 = h
      ]_vars

\* Two exchanges, the second after the first.
C19_Witness ==
    /\ Len(ChatHistory(session_state)) = 2 * MaxSends
    /\ ChatHistory(session_state)[1].content = <<HELLO>>
    /\ ChatHistory(session_state)[3].content = <<REFINED>>
    /\ ChatInput(session_state) = <<>>

\* C20: the chat model is called by a Send click only, and a step that is
\* neither the user's typing nor a Send changes chat_input only when it was
\* empty, to the refined prompt.
C20_PrepopulatedNeverSent ==
    [][rev = "filters" =>
          /\ run'.chat # <<>> => run'.event = "send"
          /\ ChatHistory(session_state') # ChatHistory(session_state) => run'.event = "send"
          /\ (run'.event \notin {"type", "send"}
                /\ ChatInput(session_state') # ChatInput(session_state)) =>
                /\ ChatInput(session_state) = <<>>
                /\ SessionHas(session_state', "refined_prompt")
                /\ ChatInput(session_state') = session_state'["refined_prompt"]
      ]_vars

\* The refined prompt is in the chat box and nothing has been sent; and text
\* the user typed is still there after a refinement.
C20_Witness ==
    /\ rev = "filters"
    /\ run.event = "refine_directly"
    /\ SessionHas(session_state, "refined_prompt")
    /\ session_state["refined_prompt"] = <<REFINED>>
    /\ ChatInput(session_state) = <<HELLO>>
    /\ ChatHistory(session_state) = <<>>

\* The one definition of the list shown, its options and the answer collected
\* for it (under its key, or under its label as app.py stores it).
TheFilter == custom_filters[1]
TheOptions ==
    IF Field(TheFilter, "options").t = "arr" THEN Field(TheFilter, "options").e ELSE <<>>
TheAnswer ==
    IF Field(TheFilter, "key") \in ChoiceKeys(user_custom_choices)
    THEN ChoiceOf(user_custom_choices, Field(TheFilter, "key"))
    ELSE ChoiceOf(user_custom_choices, Field(TheFilter, "label"))

\* What is stored for an option: the value of a label/value object, else the
\* option's text cut to 100 characters.
StoredValue(opt) ==
    IF IsObject(opt) /\ HasKey(opt, <<"label">>) /\ HasKey(opt, <<"value">>)
    THEN Field(opt, "value")
    ELSE Str(Take(PyStr(opt), 100))

\* The position the user selected in a radio or selectbox.
SelectedPosition ==
    IF user_input.pick <= Len(TheOptions) THEN user_input.pick ELSE Len(TheOptions)

ShownSingleChoice ==
    /\ pc = "displayed"
    /\ rev = "filters"
    /\ Len(custom_filters) = 1
    /\ Field(TheFilter, "type") \in {S("radio"), S("selectbox")}
    /\ TheOptions # <<>>

\* C21 (as claimed): for a radio or selectbox of filters.py the answer is the
\* stored value of the option the user selected, whatever the options are.
C21_SelectedValueStored ==
    ShownSingleChoice =>
        /\ ~display_raised
        /\ TheAnswer = StoredValue(TheOptions[SelectedPosition])

\* With options whose display labels differ, filters.py does what C21 says.
FiltersStoresSelectedOfDistinctLabels ==
    (/\ ShownSingleChoice
     /\ \A i, j \in DOMAIN TheOptions :
           i # j => OptionPair(TheOptions[i]).label # OptionPair(TheOptions[j]).label) =>
        C21_SelectedValueStored

ShownCheckbox ==
    /\ pc = "displayed"
    /\ Len(custom_filters) = 1
    /\ Field(TheFilter, "type") = S("checkbox")

\* The stored values of the ticked options, in option order.
TickedValues ==
    LET numbered == [i \in DOMAIN TheOptions |-> <<i, StoredValue(TheOptions[i])>>]
        ticked == SelectSeq(numbered, LAMBDA p : p[1] \in user_input.ticks)
    IN  Arr([i \in DOMAIN ticked |-> ticked[i][2]])

\* C22 (as claimed): a checkbox definition without options gives one boolean,
\* the state of its tick; one with options gives the list of the stored values
\* of the ticked options, in option order.
C22_CheckboxAnswer ==
    ShownCheckbox =>
        /\ ~display_raised
        /\ TheAnswer = (IF TheOptions = <<>> THEN PyBool(1 \in user_input.ticks)
                        ELSE TickedValues)

\* The renderer of filters.py alone does what C22 says.
FiltersCheckboxAnswer ==
    rev = "filters" => C22_CheckboxAnswer

====
